---- MODULE Spec2Model ----
(***************************************************************************)
(* coin_calc: words of the word lists that can be laid out with the coins  *)
(* of a wallet (one letter per coin) and whose letter values sum to a      *)
(* target band.  Model of src/src/__main__.py.                             *)
(*                                                                         *)
(* A character is a record [base, form, upper]: base is the ASCII letter   *)
(* it is drawn on, form the diacritic ("plain" for none) and upper its     *)
(* case.  A word is a sequence of characters.                              *)
(***************************************************************************)
EXTENDS Integers, Sequences, FiniteSets, TLC

VARIABLES
    config,               \* Config(): value, value_range, minimum_number_letters
    values_file,          \* parsed lines of data/values.txt: [letter, value]
    wallet_file,          \* parsed lines of data/coins.txt: [count, letter, total]
    dict_lines,           \* what _iterate_all_language_files yields: [language, word]
    pc,                   \* position of main
    err,                  \* the exception that ended the run ("" while none)
    coin_values,          \* letter -> value (the frame indexed by letter)
    wallet_pos,           \* next line of coins.txt the generator reads
    coins,                \* rows yielded by _read_coin_inventory: [letter, value]
    value_all_coins,
    letters_in_wallet,    \* letter -> number of coins
    all_words,            \* rows of _get_all_words: [language, word, sanitized]
    coin_counts_per_word, \* per row of all_words: letter -> count
    missmatched_words,    \* rows named by the accounting error
    valid_words,          \* what _get_all_valid_words returns: [language, word, value]
    output_csv            \* what main prints and writes

vars == <<config, values_file, wallet_file, dict_lines, pc, err, coin_values,
          wallet_pos, coins, value_all_coins, letters_in_wallet, all_words,
          coin_counts_per_word, missmatched_words, valid_words, output_csv>>

inputs == <<config, values_file, wallet_file, dict_lines>>

(***************************************************************************)
(* Bounds of the checked instances.                                        *)
(***************************************************************************)
MaxWalletLines == 2   \* lines of coins.txt in the construction instances
MaxCorpus == 2        \* word-list lines in the filtering instances
MaxPrefix == 1        \* characters before the last one in the glyph instances

(***************************************************************************)
(* Characters.                                                             *)
(***************************************************************************)
Ch(b, f, u) == [base |-> b, form |-> f, upper |-> u]

\* letter.upper() and letter.lower() of a catalog letter (lines 87, 171)
Upper(letter) == Ch(letter, "plain", TRUE)
Lower(letter) == Ch(letter, "plain", FALSE)

Apostrophe == Ch("'", "plain", FALSE)

\* both cases of the given forms of a base letter
Glyphs(b, forms) == {Ch(b, f, u) : f \in forms, u \in BOOLEAN}

\* the character classes of the regular expressions, lines 87-127
LetterRegex(letter) == {Lower(letter), Upper(letter)}
RegexAUml == Glyphs("A", {"uml"})
RegexOUml == Glyphs("O", {"uml"})
RegexUUml == Glyphs("U", {"uml"})
RegexSharpS == {Ch("S", "sharp", FALSE)}
RegexE == Glyphs("E", {"grave", "acute", "circ"})
RegexA == Glyphs("A", {"circ", "grave", "acute", "ring"})
RegexN == Glyphs("N", {"tilde"})
RegexI == Glyphs("I", {"acute"})
RegexO == Glyphs("O", {"circ", "acute"})
RegexC == Glyphs("C", {"ced"})
RegexU == Glyphs("U", {"circ"})

\* Series.str.count(regex) on one word
RECURSIVE StrCount(_, _)
StrCount(word, regex) ==
    IF word = <<>> THEN 0
    ELSE (IF Head(word) \in regex THEN 1 ELSE 0) + StrCount(Tail(word), regex)

RECURSIVE SumOver(_, _)
SumOver(f, S) ==
    IF S = {} THEN 0
    ELSE LET x == CHOOSE y \in S : TRUE IN f[x] + SumOver(f, S \ {x})

RECURSIVE SumSeq(_)
SumSeq(s) == IF s = <<>> THEN 0 ELSE Head(s) + SumSeq(Tail(s))

(***************************************************************************)
(* _extract_all_letters, for one row.                                      *)
(***************************************************************************)
\* the columns the special-glyph statements index, lines 91-128
SpecialColumns == {"A", "E", "O", "U", "S", "N", "I", "C"}

\* letters[column] += count
AddTo(letters, column, count) == [letters EXCEPT ![column] = @ + count]

\* lines 86-88
PlainCounts(word, letter_index) ==
    [letter \in letter_index |-> StrCount(word, LetterRegex(letter))]

\* lines 90-103: an umlaut adds its base vowel and an E
UmlautCounts_NoE(letters, word) ==
    AddTo(AddTo(AddTo(letters, "A", StrCount(word, RegexAUml)),
                "O", StrCount(word, RegexOUml)),
          "U", StrCount(word, RegexUUml))
UmlautCounts(letters, word) ==
    LET a == StrCount(word, RegexAUml)
        o == StrCount(word, RegexOUml)
        u == StrCount(word, RegexUUml)
    IN AddTo(AddTo(AddTo(AddTo(AddTo(AddTo(letters, "A", a), "E", a),
                               "O", o), "E", o), "U", u), "E", u)

\* lines 105-106: a sharp S adds two S
SharpSCounts(letters, word) ==
    AddTo(letters, "S", 2 * StrCount(word, RegexSharpS))

\* lines 109-128: an accented glyph adds its base letter
AccentCounts_NoGrave(letters, word) ==
    LET NoGrave(regex) == {c \in regex : c.form # "grave"}
    IN AddTo(AddTo(AddTo(AddTo(AddTo(AddTo(AddTo(letters,
           "E", StrCount(word, NoGrave(RegexE))),
           "A", StrCount(word, NoGrave(RegexA))),
           "N", StrCount(word, RegexN)),
           "I", StrCount(word, RegexI)),
           "O", StrCount(word, RegexO)),
           "C", StrCount(word, RegexC)),
           "U", StrCount(word, RegexU))
AccentCounts(letters, word) ==
    AddTo(AddTo(AddTo(AddTo(AddTo(AddTo(AddTo(letters,
        "E", StrCount(word, RegexE)),
        "A", StrCount(word, RegexA)),
        "N", StrCount(word, RegexN)),
        "I", StrCount(word, RegexI)),
        "O", StrCount(word, RegexO)),
        "C", StrCount(word, RegexC)),
        "U", StrCount(word, RegexU))

\* the row of `letters` for one word, lines 86-128
LettersOf(word, letter_index) ==
    AccentCounts(SharpSCounts(UmlautCounts(PlainCounts(word, letter_index), word),
                              word), word)

\* the row of `diff` for one word, lines 84, 93, 98, 103, 107
DiffOf(word) ==
    0 - StrCount(word, RegexAUml) - StrCount(word, RegexOUml)
      - StrCount(word, RegexUUml) - StrCount(word, RegexSharpS)

\* line 130, for one row
CountsDontAddUp_Never(word, letter_index) == FALSE
CountsDontAddUp(word, letter_index) ==
    Len(word) # SumOver(LettersOf(word, letter_index), letter_index) + DiffOf(word)

(***************************************************************************)
(* _get_all_words.                                                         *)
(***************************************************************************)
\* frame[mask]: the rows whose position is in keep, in the frame's order
Rows(frame, keep) ==
    LET F[i \in 0..Len(frame)] ==
            IF i = 0 THEN <<>>
            ELSE IF i \in keep THEN Append(F[i-1], frame[i]) ELSE F[i-1]
    IN F[Len(frame)]

\* line 144: drop_duplicates(word), keeping the first row of each word
DropDuplicates_KeepLast(lines) ==
    Rows(lines, {i \in 1..Len(lines) :
                    \A j \in (i+1)..Len(lines) : lines[j].word # lines[i].word})
DropDuplicates(lines) ==
    Rows(lines, {i \in 1..Len(lines) :
                    \A j \in 1..(i-1) : lines[j].word # lines[i].word})

\* line 146: str.replace("'", "")
Sanitize(word) == SelectSeq(word, LAMBDA c : c # Apostrophe)

\* lines 148-150
LongEnough_Raw(row, minimum) == Len(row.word) >= minimum
LongEnough(row, minimum) == Len(row.sanitized) >= minimum

\* lines 141-151
GetAllWords(lines, minimum) ==
    LET unique == DropDuplicates(lines)
        rows == [i \in 1..Len(unique) |->
                    [language |-> unique[i].language, word |-> unique[i].word,
                     sanitized |-> Sanitize(unique[i].word)]]
    IN Rows(rows, {i \in 1..Len(rows) : LongEnough(rows[i], minimum)})

(***************************************************************************)
(* _get_all_valid_words.                                                   *)
(***************************************************************************)
\* line 67: coin_counts_per_word.mul(coin_values, axis=1).sum(axis=1), one row
WordValue_Unweighted(counts, values) ==
    SumOver(counts, DOMAIN counts)
WordValue(counts, values) ==
    SumOver([letter \in DOMAIN counts |-> counts[letter] * values[letter]],
            DOMAIN counts)

\* line 71: coin_counts_per_word.le(letters_in_wallet).all(axis=1), one row
CoinCountFilter_Any(counts, wallet) ==
    \E letter \in DOMAIN counts : counts[letter] <= wallet[letter]
CoinCountFilter(counts, wallet) ==
    \A letter \in DOMAIN counts : counts[letter] <= wallet[letter]

\* line 72
MinimumValueFilter(value, cfg) == value >= cfg.value

\* line 73
MaximumValueFilter(value, cfg) == value <= cfg.value + cfg.value_range

\* the orders of a frame's rows
Orders(rows) ==
    {[i \in 1..Len(rows) |-> rows[p[i]]] :
        p \in {q \in [1..Len(rows) -> 1..Len(rows)] :
                  \A i, j \in 1..Len(rows) : q[i] = q[j] => i = j}}

\* line 78: sort_values(value, ascending=True) with the default kind
\* "quicksort", which is not a stable sort: any ascending order of the rows
\* is a possible result
SortValues_Unsorted(rows) == Orders(rows)
SortValues(rows) ==
    {s \in Orders(rows) : \A i \in 1..(Len(s) - 1) : s[i].value <= s[i+1].value}

(***************************************************************************)
(* _read_coin_inventory.                                                   *)
(***************************************************************************)
\* lines 187-189: value = int(total) / count; value != expected_value.  The
\* quotient of the true division equals the integer expected_value exactly
\* when total = count * expected_value.
ValueDiffers_Never(total, count, expected_value) == FALSE
ValueDiffers(total, count, expected_value) == total # count * expected_value

\* lines 193-194: the rows one line yields
YieldCoins(line) ==
    [i \in 1..line.count |->
        [letter |-> line.letter, value |-> line.total \div line.count]]

\* line 39: coins.value.sum()
ValueSum(rows) == SumSeq([i \in 1..Len(rows) |-> rows[i].value])

\* line 40
NotEnoughMoney(total, cfg) == total < cfg.value

\* lines 45-48: value_counts over the catalog's letters, missing letters 0
LettersInWallet(rows, letter_index) ==
    [letter \in letter_index |->
        Cardinality({i \in 1..Len(rows) : rows[i].letter = letter})]

(***************************************************************************)
(* The inputs of the checked instances.                                    *)
(***************************************************************************)
ValueLine(l, v) == [letter |-> l, value |-> v]
WalletLine(c, l, t) == [count |-> c, letter |-> l, total |-> t]
DictLine(lang, w) == [language |-> lang, word |-> w]

\* a values.txt with every letter the words below use
ValuesFull ==
    <<ValueLine("A", 1), ValueLine("B", 2), ValueLine("C", 3), ValueLine("E", 1),
      ValueLine("G", 2), ValueLine("I", 1), ValueLine("N", 1), ValueLine("O", 1),
      ValueLine("Q", 4), ValueLine("R", 1), ValueLine("S", 1), ValueLine("U", 1)>>
\* the same without N, I and C
ValuesNoNIC == SelectSeq(ValuesFull, LAMBDA r : r.letter \notin {"N", "I", "C"})
CatalogLetters == {ValuesFull[i].letter : i \in 1..Len(ValuesFull)}

\* line 26, two of its five word lists
LANGUAGES == <<"american-english", "ngerman">>

BAR == <<Upper("B"), Upper("A"), Upper("R")>>
Bra == <<Lower("B"), Lower("R"), Lower("A")>>
RabApos == <<Upper("R"), Lower("A"), Apostrophe, Lower("B")>>
SsS == <<Upper("S"), Lower("S"), Upper("S")>>
SharpSs == <<Ch("S", "sharp", FALSE), Lower("S")>>
Ab == <<Upper("A"), Lower("B")>>
XApos == <<Lower("X"), Apostrophe>>
Aerger == <<Ch("A", "uml", TRUE), Upper("R"), Upper("G"), Upper("E"), Upper("R")>>

FilterWords == {BAR, Bra, RabApos, SsS, SharpSs, Ab, XApos}

\* every diacritic form of the letters A, E, I, O, U, C, N, in both cases
AccentGlyphs ==
    Glyphs("A", {"grave", "acute", "circ", "tilde", "ring"})
    \cup Glyphs("E", {"grave", "acute", "circ"})
    \cup Glyphs("I", {"grave", "acute", "circ"})
    \cup Glyphs("O", {"grave", "acute", "circ", "tilde"})
    \cup Glyphs("U", {"grave", "acute", "circ", "ring"})
    \cup Glyphs("C", {"ced", "acute"})
    \cup Glyphs("N", {"tilde", "acute"})

AllChars ==
    UNION {LetterRegex(l) : l \in CatalogLetters \cup {"X"}}
    \cup RegexAUml \cup RegexOUml \cup RegexUUml \cup Glyphs("S", {"sharp"})
    \cup AccentGlyphs \cup {Apostrophe, Ch("-", "plain", FALSE)}

PrefixChars ==
    {Lower("A"), Upper("S"), Ch("A", "uml", FALSE), Ch("S", "sharp", FALSE),
     Ch("E", "acute", FALSE), Apostrophe}

SeqsUpTo(S, n) == UNION {[1..k -> S] : k \in 0..n}

GlyphWords ==
    {p \o <<c>> : p \in SeqsUpTo(PrefixChars, MaxPrefix), c \in AllChars}
    \cup {Aerger}

\* the word lists: the lines of the first language, then those of the second
Corpora(words, n) ==
    {[i \in 1..Len(ws) |->
        DictLine(IF i <= k THEN LANGUAGES[1] ELSE LANGUAGES[2], ws[i])] :
        ws \in SeqsUpTo(words, n) \ {<<>>}, k \in 0..n}

WalletLines ==
    {WalletLine(3, "A", 3), WalletLine(1, "B", 2), WalletLine(2, "S", 2),
     WalletLine(1, "Q", 4), WalletLine(1, "Q", 5), WalletLine(2, "B", 2),
     WalletLine(0, "A", 0), WalletLine(1, "Z", 1)}

WalletExample ==
    <<WalletLine(3, "A", 3), WalletLine(1, "B", 2), WalletLine(2, "R", 2),
      WalletLine(2, "S", 2)>>
WalletNoB == <<WalletLine(2, "A", 2), WalletLine(1, "R", 1), WalletLine(3, "S", 3)>>

Cfg(v, r, m) == [value |-> v, value_range |-> r, minimum_number_letters |-> m]

\* coins.txt and the target vary
ConstructionInputs ==
    /\ config \in {Cfg(v, 1, 2) : v \in {3, 6}}
    /\ values_file \in {ValuesFull, ValuesNoNIC}
    /\ wallet_file \in SeqsUpTo(WalletLines, MaxWalletLines)
    /\ dict_lines \in {<<DictLine(LANGUAGES[1], BAR), DictLine(LANGUAGES[2], Ab)>>}

\* the word lists and the band vary
FilterInputs ==
    /\ config \in {Cfg(3, 1, m) : m \in {2, 3}} \cup {Cfg(4, 0, m) : m \in {2, 3}}
    /\ values_file = ValuesFull
    /\ wallet_file \in {WalletExample, WalletNoB}
    /\ dict_lines \in Corpora(FilterWords, MaxCorpus)

\* the glyphs of one word vary
GlyphInputs ==
    /\ config = Cfg(1, 8, 1)
    /\ values_file \in {ValuesFull, ValuesNoNIC}
    /\ wallet_file = <<WalletLine(2, "A", 2)>>
    /\ dict_lines \in {<<DictLine(LANGUAGES[2], w)>> : w \in GlyphWords}

(***************************************************************************)
(* main.                                                                   *)
(***************************************************************************)
NoCounts == [letter \in {} |-> 0]

Init ==
    /\ ConstructionInputs \/ FilterInputs \/ GlyphInputs
    /\ pc = "read_coin_values"
    /\ err = ""
    /\ coin_values = NoCounts
    /\ wallet_pos = 1
    /\ coins = <<>>
    /\ value_all_coins = 0
    /\ letters_in_wallet = NoCounts
    /\ all_words = <<>>
    /\ coin_counts_per_word = <<>>
    /\ missmatched_words = {}
    /\ valid_words = <<>>
    /\ output_csv = <<>>

Raise(e) == pc' = "error" /\ err' = e

\* lines 35-37
ReadCoinValues ==
    /\ pc = "read_coin_values"
    /\ coin_values' =
         [letter \in {values_file[i].letter : i \in 1..Len(values_file)} |->
            LET i == CHOOSE j \in 1..Len(values_file) : values_file[j].letter = letter
            IN values_file[i].value]
    /\ pc' = "read_coin_inventory"
    /\ UNCHANGED <<inputs, err, wallet_pos, coins, value_all_coins,
                   letters_in_wallet, all_words, coin_counts_per_word,
                   missmatched_words, valid_words, output_csv>>

\* line 38, one line of coins.txt: lines 179-194
ReadCoinInventory ==
    /\ pc = "read_coin_inventory"
    /\ wallet_pos <= Len(wallet_file)
    /\ LET line == wallet_file[wallet_pos] IN
         IF line.count = 0
         THEN Raise("ZeroDivisionError") /\ UNCHANGED <<wallet_pos, coins>>
         ELSE IF line.letter \notin DOMAIN coin_values
         THEN Raise("KeyError: wallet letter") /\ UNCHANGED <<wallet_pos, coins>>
         ELSE IF ValueDiffers(line.total, line.count, coin_values[line.letter])
         THEN Raise("RuntimeError: wallet value") /\ UNCHANGED <<wallet_pos, coins>>
         ELSE /\ coins' = coins \o YieldCoins(line)
              /\ wallet_pos' = wallet_pos + 1
              /\ UNCHANGED <<pc, err>>
    /\ UNCHANGED <<inputs, coin_values, value_all_coins, letters_in_wallet,
                   all_words, coin_counts_per_word, missmatched_words,
                   valid_words, output_csv>>

\* lines 39-48
CountWallet ==
    /\ pc = "read_coin_inventory"
    /\ wallet_pos > Len(wallet_file)
    /\ IF coins = <<>>
       THEN \* an empty frame has no column "value"
            Raise("AttributeError") /\ UNCHANGED <<value_all_coins, letters_in_wallet>>
       ELSE /\ value_all_coins' = ValueSum(coins)
            /\ IF NotEnoughMoney(ValueSum(coins), config)
               THEN Raise("RuntimeError: not enough money")
                    /\ UNCHANGED letters_in_wallet
               ELSE /\ letters_in_wallet' = LettersInWallet(coins, DOMAIN coin_values)
                    /\ pc' = "get_all_words"
                    /\ UNCHANGED err
    /\ UNCHANGED <<inputs, coin_values, wallet_pos, coins, all_words,
                   coin_counts_per_word, missmatched_words, valid_words, output_csv>>

\* line 62
GetAllWordsStep ==
    /\ pc = "get_all_words"
    /\ all_words' = GetAllWords(dict_lines, config.minimum_number_letters)
    /\ pc' = "extract_all_letters"
    /\ UNCHANGED <<inputs, err, coin_values, wallet_pos, coins, value_all_coins,
                   letters_in_wallet, coin_counts_per_word, missmatched_words,
                   valid_words, output_csv>>

\* lines 63-65: _extract_all_letters over every row
ExtractAllLetters ==
    /\ pc = "extract_all_letters"
    /\ LET letter_index == DOMAIN coin_values
           bad == {i \in 1..Len(all_words) :
                     CountsDontAddUp(all_words[i].sanitized, letter_index)}
       IN IF ~(SpecialColumns \subseteq letter_index)
          THEN \* letters["N"] += count on a frame without that column
               Raise("KeyError: column")
               /\ UNCHANGED <<coin_counts_per_word, missmatched_words>>
          ELSE IF bad # {}
          THEN /\ Raise("RuntimeError: counts")
               /\ missmatched_words' = {all_words[i].word : i \in bad}
               /\ UNCHANGED coin_counts_per_word
          ELSE /\ coin_counts_per_word' =
                     [i \in 1..Len(all_words) |->
                        LettersOf(all_words[i].sanitized, letter_index)]
               /\ pc' = "filter"
               /\ UNCHANGED <<err, missmatched_words>>
    /\ UNCHANGED <<inputs, coin_values, wallet_pos, coins, value_all_coins,
                   letters_in_wallet, all_words, valid_words, output_csv>>

\* lines 66-79
FilterAndSort ==
    /\ pc = "filter"
    /\ LET valued == [i \in 1..Len(all_words) |->
                        [language |-> all_words[i].language,
                         word |-> all_words[i].word,
                         value |-> WordValue(coin_counts_per_word[i], coin_values)]]
           filtered == Rows(valued, {i \in 1..Len(valued) :
                          /\ CoinCountFilter(coin_counts_per_word[i], letters_in_wallet)
                          /\ MinimumValueFilter(valued[i].value, config)
                          /\ MaximumValueFilter(valued[i].value, config)})
       IN valid_words' \in SortValues(filtered)
    /\ pc' = "export"
    /\ UNCHANGED <<inputs, err, coin_values, wallet_pos, coins, value_all_coins,
                   letters_in_wallet, all_words, coin_counts_per_word,
                   missmatched_words, output_csv>>

\* lines 52-53
Export ==
    /\ pc = "export"
    /\ output_csv' = valid_words
    /\ pc' = "done"
    /\ UNCHANGED <<inputs, err, coin_values, wallet_pos, coins, value_all_coins,
                   letters_in_wallet, all_words, coin_counts_per_word,
                   missmatched_words, valid_words>>

Next ==
    \/ ReadCoinValues
    \/ ReadCoinInventory
    \/ CountWallet
    \/ GetAllWordsStep
    \/ ExtractAllLetters
    \/ FilterAndSort
    \/ Export

Spec == Init /\ [][Next]_vars

TypeOK ==
    /\ pc \in {"read_coin_values", "read_coin_inventory", "get_all_words",
               "extract_all_letters", "filter", "export", "done", "error"}
    /\ (pc = "error") = (err # "")

(***************************************************************************)
(* The properties, stated over the inputs of the run.                      *)
(***************************************************************************)
Catalog == {values_file[i].letter : i \in 1..Len(values_file)}
CatalogValue(letter) ==
    values_file[CHOOSE i \in 1..Len(values_file) : values_file[i].letter = letter].value

\* coins of a letter in coins.txt, 0 when it has none
InventoryCount(letter) ==
    SumSeq([i \in 1..Len(wallet_file) |->
              IF wallet_file[i].letter = letter THEN wallet_file[i].count ELSE 0])

\* the glyph table: what one character adds to one letter
Contribution(c, letter) ==
    CASE c.form = "plain" -> IF c.base = letter THEN 1 ELSE 0
      [] c.form = "uml" -> IF letter \in {c.base, "E"} THEN 1 ELSE 0
      [] c.form = "sharp" -> IF letter = "S" THEN 2 ELSE 0
      [] OTHER -> IF c.base = letter THEN 1 ELSE 0

ExpectedCounts(word) ==
    [letter \in Catalog |->
        SumSeq([k \in 1..Len(word) |-> Contribution(word[k], letter)])]

Expansions(word) ==
    Cardinality({k \in 1..Len(word) : word[k].form \in {"uml", "sharp"}})

ExpectedValue(word) ==
    SumOver([letter \in Catalog |-> ExpectedCounts(word)[letter] * CatalogValue(letter)],
            Catalog)

PlainAndUmlautChars ==
    {Ch(l, "plain", u) : l \in Catalog, u \in BOOLEAN}
    \cup {Ch(b, "uml", u) : b \in {"A", "O", "U"}, u \in BOOLEAN}
    \cup {Ch("S", "sharp", FALSE)}

\* the accented glyphs with a statement of their own in lines 109-128
HandledAccents ==
    {Ch("E", f, u) : f \in {"grave", "acute", "circ"}, u \in BOOLEAN}
    \cup {Ch("A", f, u) : f \in {"grave", "acute", "circ", "ring"}, u \in BOOLEAN}
    \cup {Ch("O", f, u) : f \in {"acute", "circ"}, u \in BOOLEAN}
    \cup {Ch("N", "tilde", u) : u \in BOOLEAN}
    \cup {Ch("I", "acute", u) : u \in BOOLEAN}
    \cup {Ch("C", "ced", u) : u \in BOOLEAN}
    \cup {Ch("U", "circ", u) : u \in BOOLEAN}

Chars(word) == {word[k] : k \in 1..Len(word)}

\* a character of the word that is neither a catalog letter nor in the table
HasUnknownChar(word) ==
    ~(Chars(word) \subseteq PlainAndUmlautChars \cup HandledAccents)

ExtractionFinished ==
    \/ pc \in {"filter", "export", "done"}
    \/ pc = "error" /\ err \in {"KeyError: column", "RuntimeError: counts"}

Returned == pc \in {"export", "done"}

PassesLength(word) == Len(Sanitize(word)) >= config.minimum_number_letters
Available(word) ==
    \A letter \in Catalog :
        ExpectedCounts(Sanitize(word))[letter] <= InventoryCount(letter)
InBand(word) ==
    /\ config.value <= ExpectedValue(Sanitize(word))
    /\ ExpectedValue(Sanitize(word)) <= config.value + config.value_range

DictWords == {dict_lines[i].word : i \in 1..Len(dict_lines)}
FirstLine(word) == CHOOSE i \in 1..Len(dict_lines) :
    /\ dict_lines[i].word = word
    /\ \A j \in 1..(i-1) : dict_lines[j].word # word

\* C1: every returned word needs of each letter at most the coins the wallet
\* has of it, a letter without a coin counting 0.
C1_AdmittedWordsAreAvailable ==
    Returned => \A i \in 1..Len(valid_words) : Available(valid_words[i].word)

C1_Witness ==
    /\ pc = "done"
    /\ \E i \in 1..Len(output_csv) : output_csv[i].word = BAR
    /\ SsS \in DictWords /\ InBand(SsS) /\ PassesLength(SsS)
    /\ InventoryCount("S") = 2
    /\ \A i \in 1..Len(output_csv) : output_csv[i].word # SsS

\* C2: the value of every returned word is the catalog-weighted sum of its
\* letter counts and lies in [value, value + value_range], both ends included.
C2_AdmittedValuesInBand ==
    Returned => \A i \in 1..Len(valid_words) :
        /\ valid_words[i].value = ExpectedValue(Sanitize(valid_words[i].word))
        /\ config.value <= valid_words[i].value
        /\ valid_words[i].value <= config.value + config.value_range

C2_Witness ==
    /\ pc = "done"
    /\ \E i, j \in 1..Len(output_csv) :
        /\ output_csv[i].value = config.value
        /\ output_csv[j].value = config.value + config.value_range
        /\ config.value_range > 0

UmlautRowsAsExpected ==
    /\ \A i \in 1..Len(all_words) :
        Chars(all_words[i].sanitized) \subseteq PlainAndUmlautChars =>
            /\ all_words[i].word \notin missmatched_words
            /\ pc # "error" =>
                /\ coin_counts_per_word[i] = ExpectedCounts(all_words[i].sanitized)
                /\ Len(all_words[i].sanitized) =
                     SumOver(coin_counts_per_word[i], Catalog)
                       - Expansions(all_words[i].sanitized)
    /\ (\A i \in 1..Len(all_words) :
            Chars(all_words[i].sanitized) \subseteq PlainAndUmlautChars)
         => pc # "error"

AccentRowsAsExpected(accents) ==
    /\ \A i \in 1..Len(all_words) :
        (/\ Chars(all_words[i].sanitized) \cap accents # {}
         /\ Chars(all_words[i].sanitized) \subseteq PlainAndUmlautChars \cup accents)
        => /\ all_words[i].word \notin missmatched_words
           /\ pc # "error" =>
                coin_counts_per_word[i] = ExpectedCounts(all_words[i].sanitized)
    /\ (\A i \in 1..Len(all_words) :
            Chars(all_words[i].sanitized) \subseteq PlainAndUmlautChars \cup accents)
         => pc # "error"

\* C5 as stated: every acute, grave, circumflex, ring, cedilla or tilde form of
\* A, E, I, O, U, C, N normalizes without error and adds 1 to its base letter
\* and nothing else.
C5_Original ==
    (ExtractionFinished /\ SpecialColumns \subseteq Catalog)
    => AccentRowsAsExpected(AccentGlyphs)

\* C5 amended: with A, E, O, U, S, N, I and C in the catalog, the glyphs
\* e-grave/acute/circumflex, a-grave/acute/circumflex/ring, o-acute/circumflex,
\* n-tilde, i-acute, c-cedilla and u-circumflex, in either case, normalize
\* without error and add 1 to their base letter and nothing else.
C5_HandledAccentCounts ==
    (ExtractionFinished /\ SpecialColumns \subseteq Catalog)
    => AccentRowsAsExpected(HandledAccents)

C5_Witness ==
    /\ pc = "filter"
    /\ \E i \in 1..Len(all_words) :
        /\ Ch("N", "tilde", TRUE) \in Chars(all_words[i].sanitized)
        /\ Ch("S", "sharp", FALSE) \in Chars(all_words[i].sanitized)
        /\ coin_counts_per_word[i]["N"] = 1 /\ coin_counts_per_word[i]["S"] = 2

\* C6: the returned sequence is non-decreasing in value.
C6_OutputAscending ==
    Returned => \A i \in 1..(Len(valid_words) - 1) :
        valid_words[i].value <= valid_words[i+1].value

C6_Witness ==
    /\ pc = "done"
    /\ Len(output_csv) >= 2
    /\ output_csv[1].value < output_csv[2].value
    /\ FirstLine(output_csv[2].word) < FirstLine(output_csv[1].word)

\* C7: returned words of equal value keep their order in the deduplicated
\* word list.
C7_StableRanking ==
    Returned => \A i, j \in 1..Len(valid_words) :
        (i < j /\ valid_words[i].value = valid_words[j].value)
            => FirstLine(valid_words[i].word) < FirstLine(valid_words[j].word)

\* every line of coins.txt declares the catalog's value and the coins are
\* worth the target
WalletValidated ==
    /\ \A i \in 1..Len(wallet_file) :
        /\ wallet_file[i].letter \in Catalog
        /\ wallet_file[i].total =
             wallet_file[i].count * CatalogValue(wallet_file[i].letter)
    /\ SumSeq([i \in 1..Len(wallet_file) |-> wallet_file[i].total]) >= config.value

\* C8: the word lists are read, normalized and filtered only after every line
\* of coins.txt matched the catalog and the coins were found worth the target;
\* otherwise the run has no words and no result.
C8_ValidatedBeforeFiltering ==
    ~WalletValidated =>
        /\ pc \in {"read_coin_values", "read_coin_inventory", "error"}
        /\ err \notin {"KeyError: column", "RuntimeError: counts"}
        /\ all_words = <<>> /\ coin_counts_per_word = <<>>
        /\ valid_words = <<>> /\ output_csv = <<>>

C8_Witness ==
    /\ pc = "error" /\ err = "RuntimeError: wallet value"
    /\ wallet_file[wallet_pos] = WalletLine(1, "Q", 5)
    /\ CatalogValue("Q") = 4
    /\ all_words = <<>> /\ output_csv = <<>>

\* C9: a word shorter than minimum_number_letters once its apostrophes are
\* removed is not normalized, not returned and not a cause of the accounting
\* error; every returned word is long enough.
C9_LengthFilterFirst ==
    /\ \A i \in 1..Len(all_words) : PassesLength(all_words[i].word)
    /\ \A w \in missmatched_words : PassesLength(w)
    /\ \A i \in 1..Len(valid_words) : PassesLength(valid_words[i].word)
    /\ \A i \in 1..Len(output_csv) : PassesLength(output_csv[i].word)
    /\ (\A w \in DictWords : HasUnknownChar(Sanitize(w)) => ~PassesLength(w))
         => err # "RuntimeError: counts"

C9_Witness ==
    /\ pc = "done"
    /\ output_csv # <<>>
    /\ XApos \in DictWords
    /\ Len(XApos) >= config.minimum_number_letters
    /\ ~PassesLength(XApos)

\* C10: a run that completes returns exactly the distinct words of the word
\* lists that pass the length, availability and value-band filters, each once,
\* with the language of its first line.
C10_ExactlyThePassingWords ==
    Returned =>
        /\ {valid_words[i].word : i \in 1..Len(valid_words)}
             = {w \in DictWords : PassesLength(w) /\ Available(w) /\ InBand(w)}
        /\ \A i, j \in 1..Len(valid_words) :
              valid_words[i].word = valid_words[j].word => i = j
        /\ \A i \in 1..Len(valid_words) :
              valid_words[i].language
                = dict_lines[FirstLine(valid_words[i].word)].language

C10_Witness ==
    /\ pc = "done"
    /\ Len(dict_lines) = 2
    /\ dict_lines[1].word = dict_lines[2].word
    /\ dict_lines[1].language # dict_lines[2].language
    /\ Len(output_csv) = 1
    /\ output_csv[1].language = dict_lines[1].language

====
